---- MODULE Spec2Model ----
(***************************************************************************)
(* Model of doubles/question_store.py: the Question records built by       *)
(* Question_Store.__init__ and the duplicate detection pass                *)
(* Question_Store.process, as called once by Doubles.__init__.             *)
(*                                                                         *)
(* A raw question text is a sequence of one-character strings.  Similarity *)
(* scores are in hundredths (0.80 is 80).  The language detector and the   *)
(* similarity model (get_similarity) are external: the language of every   *)
(* question is an arbitrary input fixed when the store is built, and the   *)
(* score of a pair is an arbitrary value drawn when process asks for it    *)
(* and recorded in calls.                                                  *)
(***************************************************************************)
EXTENDS Integers, Sequences, FiniteSets, TLC

\* Largest number of questions read from the input file.
MaxQ == 3

\* settings.scores.SS_MATCH, in hundredths.
SS_MATCH == 80

\* settings.status.ST_NOQ
ST_NOQ == "ST_NOQ"

\* Largest number of calls of process on one store.
MaxRuns == 2

\* No output file has been written: a workbook without sheets.
NoWorkbook == <<>>

VARIABLES
    store,          \* Question_Store.store: the Question objects, in file order
    num_q,          \* Question_Store.num_q
    num_foreign,    \* Question_Store.num_foreign
    status,         \* Question_Store.status
    num_duplicates, \* Question_Store.num_duplicates (set by process)
    num_negatives,  \* Question_Store.num_negatives (set by process)
    progress,       \* argument of process
    pc,             \* position of process: ready, outer, inner, compared, done, raised
    idx,            \* outer loop index (0-based, as enumerate gives it)
    idx2,           \* inner loop index (0-based within store[idx+1:])
    similarity,     \* local variable of process: result of the last comparison
    calls,          \* the calls of get_similarity made so far: positions of q, q2 and the score
    log,            \* the log.warning records emitted so far
    runs,           \* the number of calls of process so far
    workbook        \* the sheets written by export, NoWorkbook before

vars == <<store, num_q, num_foreign, status, num_duplicates, num_negatives,
          progress, pc, idx, idx2, similarity, calls, log, runs, workbook>>

---------------------------------------------------------------------------
(* Question.__init__ *)

\* str.lower, one character at a time.
LowerChar(c) ==
    CASE c = "I" -> "i"
      [] c = "N" -> "n"
      [] c = "O" -> "o"
      [] c = "T" -> "t"
      [] OTHER -> c

Lower(s) == [k \in 1..Len(s) |-> LowerChar(s[k])]

\* str.split(): the maximal runs of characters other than white space.
RECURSIVE SplitFrom(_, _, _)
SplitFrom(s, k, cur) ==
    IF k > Len(s)
    THEN IF cur = <<>> THEN <<>> ELSE <<cur>>
    ELSE IF s[k] = " "
         THEN IF cur = <<>>
              THEN SplitFrom(s, k + 1, <<>>)
              ELSE <<cur>> \o SplitFrom(s, k + 1, <<>>)
         ELSE SplitFrom(s, k + 1, Append(cur, s[k]))

Split(s) == SplitFrom(s, 1, <<>>)

\* self.tokens = self.original_question.lower().split()
Tokens(text) == Split(Lower(text))

\* Variant of NegSentiment that looks for 'not' without lower-casing.
NegSentiment_CaseSensitive(text) ==
    \E k \in 1..Len(Split(text)) : Split(text)[k] = <<"n", "o", "t">>

\* self.neg_sentiment = True if 'not' in self.tokens else False
NegSentiment(text) ==
    \E k \in 1..Len(Tokens(text)) : Tokens(text)[k] = <<"n", "o", "t">>

\* The raw question texts of the input file: "It is Not" and "Is it not?".
Texts ==
    { <<"I", "t", " ", "i", "s", " ", "N", "o", "t">>,
      <<"I", "s", " ", "i", "t", " ", "n", "o", "t", "?">> }

\* Question(lid, question_text, answer); is_foreign is what the language
\* detector reports for the text.
Question(lid, question_text, answer, is_foreign) ==
    [ lid               |-> lid,
      original_question |-> question_text,
      foreign           |-> is_foreign,
      neg_sentiment     |-> NegSentiment(question_text),
      answer            |-> answer,
      reference         |-> FALSE,
      unique            |-> TRUE,
      duplicate         |-> FALSE,
      duplicates        |-> <<>>,
      duplicate_of      |-> 0 ]

---------------------------------------------------------------------------
(* Question_Store.__init__ *)

\* The rows 2..max_row of the sheet: row r gives Question(r - 1, text, answer).
Stores(n) ==
    { [ k \in 1..n |-> Question(k, t[k], a[k], f[k]) ] :
        t \in [1..n -> Texts], a \in [1..n -> BOOLEAN], f \in [1..n -> BOOLEAN] }

Init ==
    /\ num_q \in 1..MaxQ
    /\ store \in Stores(num_q)
    /\ num_foreign = 0
    /\ status = ST_NOQ
    /\ num_duplicates = 0
    /\ num_negatives = 0
    /\ progress = FALSE
    /\ pc = "ready"
    /\ idx = 0
    /\ idx2 = 0
    /\ similarity = 0
    /\ calls = <<>>
    /\ log = <<>>
    /\ runs = 0
    /\ workbook = NoWorkbook

---------------------------------------------------------------------------
(* Question_Store.process *)

\* The scores the similarity model may return: below, at and above the threshold.
Sims == { SS_MATCH - 1, SS_MATCH, SS_MATCH + 1 }

\* get_similarity(q.question, q2.question): the scores the call may return.
get_similarity(q1, q2) == Sims

\* Variant of SkipAnchor that leaves out the duplicate test.
SkipAnchor_NoDuplicate(q) == q.reference \/ q.foreign

\* q.reference is True or q.duplicate is True or q.foreign is True
SkipAnchor(q) == q.reference \/ q.duplicate \/ q.foreign

\* Variant of SkipCandidate that never passes a candidate over.
SkipCandidate_Never(q2) == FALSE

\* Variant of SkipCandidate that tests the reference flag instead.
SkipCandidate_Reference(q2) == q2.reference

\* q2.duplicate is True
SkipCandidate(q2) == q2.duplicate

\* Variant of IsMatch that takes a score equal to the threshold as a match.
IsMatch_AtLeast(s) == s >= SS_MATCH

\* similarity > self.settings.scores.SS_MATCH
IsMatch(s) == s > SS_MATCH

\* Variant of CandPos for an inner loop over the whole store.
CandPos_FromStart == idx2 + 1

\* Store position of the anchor q and of the candidate q2 of the loops.
AnchorPos == idx + 1
CandPos == idx + 1 + idx2 + 1

\* Variant of OnlyOne that tests for an empty store.
OnlyOne_Empty == num_q = 0

\* self.num_q == 1
OnlyOne == num_q = 1

\* process(progress): reset the counters; a single question is reported and
\* left alone, otherwise the outer loop starts.
ProcessSingle ==
    /\ pc = "ready"
    /\ OnlyOne
    /\ \E p \in BOOLEAN : progress' = p
    /\ num_duplicates' = 0
    /\ num_negatives' = 0
    /\ status' = ST_NOQ
    /\ log' = Append(log, "Status")
    /\ pc' = "done"
    /\ runs' = runs + 1
    /\ UNCHANGED <<workbook, store, num_q, num_foreign, idx, idx2, similarity, calls>>

ProcessStart ==
    /\ pc = "ready"
    /\ ~OnlyOne
    /\ \E p \in BOOLEAN : progress' = p
    /\ num_duplicates' = 0
    /\ num_negatives' = 0
    /\ idx' = 0
    /\ pc' = "outer"
    /\ runs' = runs + 1
    /\ UNCHANGED <<workbook, store, num_q, num_foreign, status, idx2, similarity, calls, log>>

\* pb.show_progress(int(idx * pps)): show_progress(self, prog, ref) is called
\* without ref, which raises TypeError.
OuterProgress ==
    /\ pc = "outer"
    /\ idx < num_q
    /\ progress
    /\ pc' = "raised"
    /\ UNCHANGED <<workbook, runs, store, num_q, num_foreign, status, num_duplicates, num_negatives,
                   progress, idx, idx2, similarity, calls, log>>

\* An outer iteration on a question that is no new anchor.
OuterSkip ==
    /\ pc = "outer"
    /\ idx < num_q
    /\ ~progress
    /\ SkipAnchor(store[AnchorPos])
    /\ num_foreign' = IF store[AnchorPos].foreign THEN num_foreign + 1 ELSE num_foreign
    /\ idx' = idx + 1
    /\ UNCHANGED <<workbook, runs, store, num_q, status, num_duplicates, num_negatives,
                   progress, pc, idx2, similarity, calls, log>>

\* Variant of OuterAnchor that leaves out q.reference = True.
OuterAnchor_NoMark ==
    /\ pc = "outer"
    /\ idx < num_q
    /\ ~progress
    /\ ~SkipAnchor(store[AnchorPos])
    /\ num_foreign' = IF store[AnchorPos].foreign THEN num_foreign + 1 ELSE num_foreign
    /\ idx2' = 0
    /\ pc' = "inner"
    /\ UNCHANGED <<workbook, runs, store, num_q, status, num_duplicates, num_negatives,
                   progress, idx, similarity, calls, log>>

\* An outer iteration that makes the question the reference of the inner scan.
OuterAnchor ==
    /\ pc = "outer"
    /\ idx < num_q
    /\ ~progress
    /\ ~SkipAnchor(store[AnchorPos])
    /\ num_foreign' = IF store[AnchorPos].foreign THEN num_foreign + 1 ELSE num_foreign
    /\ store' = [store EXCEPT ![AnchorPos].reference = TRUE]
    /\ idx2' = 0
    /\ pc' = "inner"
    /\ UNCHANGED <<workbook, runs, num_q, status, num_duplicates, num_negatives,
                   progress, idx, similarity, calls, log>>

\* The outer loop is exhausted: process returns.
OuterExit ==
    /\ pc = "outer"
    /\ idx >= num_q
    /\ pc' = "done"
    /\ UNCHANGED <<workbook, runs, store, num_q, num_foreign, status, num_duplicates, num_negatives,
                   progress, idx, idx2, similarity, calls, log>>

\* The inner loop is exhausted: next outer iteration.
InnerExit ==
    /\ pc = "inner"
    /\ CandPos > num_q
    /\ idx' = idx + 1
    /\ pc' = "outer"
    /\ UNCHANGED <<workbook, runs, store, num_q, num_foreign, status, num_duplicates, num_negatives,
                   progress, idx2, similarity, calls, log>>

\* An inner iteration on a candidate that is passed over.
InnerSkip ==
    /\ pc = "inner"
    /\ CandPos <= num_q
    /\ SkipCandidate(store[CandPos])
    /\ idx2' = idx2 + 1
    /\ UNCHANGED <<workbook, runs, store, num_q, num_foreign, status, num_duplicates, num_negatives,
                   progress, pc, idx, similarity, calls, log>>

\* similarity = get_similarity(q.question, q2.question)
InnerCompare ==
    /\ pc = "inner"
    /\ CandPos <= num_q
    /\ ~SkipCandidate(store[CandPos])
    /\ \E s \in get_similarity(store[AnchorPos], store[CandPos]) :
          /\ similarity' = s
          /\ calls' = Append(calls, [q |-> AnchorPos, q2 |-> CandPos, similarity |-> s])
    /\ pc' = "compared"
    /\ UNCHANGED <<workbook, runs, store, num_q, num_foreign, status, num_duplicates, num_negatives,
                   progress, idx, idx2, log>>

\* Variant of MarkDuplicate that records the candidate's own id.
MarkDuplicate_OwnId(s, i, j) ==
    [s EXCEPT ![j].unique = FALSE,
              ![j].duplicate = TRUE,
              ![j].duplicate_of = s[j].lid,
              ![i].duplicates = Append(s[i].duplicates, j)]

\* Variant of MarkDuplicate that leaves out q2.unique = False.
MarkDuplicate_KeepUnique(s, i, j) ==
    [s EXCEPT ![j].duplicate = TRUE,
              ![j].duplicate_of = s[i].lid,
              ![i].duplicates = Append(s[i].duplicates, j)]

\* Variant of MarkDuplicate that leaves out q2.duplicate = True.
MarkDuplicate_NoFlag(s, i, j) ==
    [s EXCEPT ![j].unique = FALSE,
              ![j].duplicate_of = s[i].lid,
              ![i].duplicates = Append(s[i].duplicates, j)]

\* Variant of MarkDuplicate that leaves out q.duplicates.append(q2).
MarkDuplicate_NoAppend(s, i, j) ==
    [s EXCEPT ![j].unique = FALSE,
              ![j].duplicate = TRUE,
              ![j].duplicate_of = s[i].lid]

\* The store after q2 (position j) is marked a duplicate of q (position i).
MarkDuplicate(s, i, j) ==
    [s EXCEPT ![j].unique = FALSE,
              ![j].duplicate = TRUE,
              ![j].duplicate_of = s[i].lid,
              ![i].duplicates = Append(s[i].duplicates, j)]

\* The negative duplicate counts: q2.neg_sentiment is not False.
IsNegative(q2) == q2.neg_sentiment

\* Variant of AnswerWarning that warns when the answers differ.
AnswerWarning_Differ(q, q2) == q.answer # q2.answer

\* The warning of a negative duplicate whose answer is that of the reference.
AnswerWarning(q, q2) == q.answer = q2.answer

\* The score is a match: q2 becomes a duplicate of q.
Match ==
    /\ pc = "compared"
    /\ IsMatch(similarity)
    /\ store' = MarkDuplicate(store, AnchorPos, CandPos)
    /\ num_duplicates' = num_duplicates + 1
    /\ num_negatives' = IF IsNegative(store[CandPos])
                        THEN num_negatives + 1 ELSE num_negatives
    /\ log' = IF IsNegative(store[CandPos]) /\ AnswerWarning(store[AnchorPos], store[CandPos])
              THEN Append(log, "Possible error in negative sentiment")
              ELSE log
    /\ idx2' = idx2 + 1
    /\ pc' = "inner"
    /\ UNCHANGED <<workbook, runs, num_q, num_foreign, status, progress, idx, similarity, calls>>

\* The score is no match: only the debug record.
NoMatch ==
    /\ pc = "compared"
    /\ ~IsMatch(similarity)
    /\ idx2' = idx2 + 1
    /\ pc' = "inner"
    /\ UNCHANGED <<workbook, runs, store, num_q, num_foreign, status, num_duplicates, num_negatives,
                   progress, idx, similarity, calls, log>>

---------------------------------------------------------------------------
(* Question_Store.export *)

\* The ids written by one loop of export over store[0:k]: the questions at
\* the positions in keep, in store order.
RECURSIVE Rows(_, _)
Rows(k, keep) ==
    IF k = 0 THEN <<>>
    ELSE IF k \in keep
         THEN Append(Rows(k - 1, keep), store[k].lid)
         ELSE Rows(k - 1, keep)

\* q.duplicate is False: a row of the sheet Unique_Questions.
InUnique(q) == ~q.duplicate

\* q.duplicate is True: a row of the sheet Duplicates.
InDuplicates(q) == q.duplicate

\* q.foreign is True: a row of the sheet Foreign.
InForeign(q) == q.foreign

\* export has written the output file.
Exported == DOMAIN workbook # {}

\* export(ofile), called after process and results unless the run is dry:
\* the three sheets, by the ids of their rows.
Export ==
    /\ pc = "done"
    /\ ~Exported
    /\ workbook' =
          [ Unique_Questions |-> Rows(num_q, { k \in 1..num_q : InUnique(store[k]) }),
            Duplicates       |-> Rows(num_q, { k \in 1..num_q : InDuplicates(store[k]) }),
            Foreign          |-> Rows(num_q, { k \in 1..num_q : InForeign(store[k]) }) ]
    /\ UNCHANGED <<store, num_q, num_foreign, status, num_duplicates, num_negatives,
                   progress, pc, idx, idx2, similarity, calls, log, runs>>

\* process is called once more on the same store.
ProcessAgain ==
    /\ pc = "done"
    /\ runs < MaxRuns
    /\ pc' = "ready"
    /\ UNCHANGED <<store, num_q, num_foreign, status, num_duplicates, num_negatives,
                   progress, idx, idx2, similarity, calls, log, runs, workbook>>

Next ==
    \/ ProcessSingle
    \/ ProcessStart
    \/ OuterProgress
    \/ OuterSkip
    \/ OuterAnchor
    \/ OuterExit
    \/ InnerExit
    \/ InnerSkip
    \/ InnerCompare
    \/ Match
    \/ NoMatch
    \/ Export

\* Question_Store built, process called once, the results exported.
Spec == Init /\ [][Next]_vars

NextRepeat ==
    \/ Next
    \/ ProcessAgain

\* As Spec, with process called up to MaxRuns times on the store.
SpecRepeat == Init /\ [][NextRepeat]_vars

---------------------------------------------------------------------------
(* Properties of one pass of process over a freshly built store *)

Positions == 1..num_q

\* The calls of get_similarity made so far, as a set.
CallSet == { calls[k] : k \in 1..Len(calls) }

\* Store position of the question with id l.
PosOf(l) == CHOOSE k \in Positions : store[k].lid = l

\* C1: with two or more questions, in every state of process a question
\* whose duplicate_of is set names the id of a question at a strictly
\* earlier position whose reference flag is set.
C1_DuplicateOfEarlierReference ==
    num_q >= 2 =>
        \A j \in Positions :
            store[j].duplicate_of # 0 =>
                \E i \in 1..(j - 1) :
                    /\ store[i].lid = store[j].duplicate_of
                    /\ store[i].reference

\* A pass has marked a duplicate.
C1_Witness ==
    /\ num_q >= 2
    /\ pc = "done"
    /\ \E j \in Positions : store[j].duplicate_of # 0

\* C2 (state part): when process has returned, every reference placed before
\* the reference r of a duplicate d was compared with d and scored at or
\* below SS_MATCH.
C2_EarliestReference ==
    pc = "done" =>
        \A d \in Positions :
            store[d].duplicate =>
                \A rp \in 1..(PosOf(store[d].duplicate_of) - 1) :
                    store[rp].reference =>
                        /\ \E c \in CallSet : c.q = rp /\ c.q2 = d
                        /\ \A c \in CallSet :
                              (c.q = rp /\ c.q2 = d) => c.similarity <= SS_MATCH

\* C2 (step part): a question marked duplicate stays a duplicate of the same
\* reference in every later step.
C2_NeverReassigned ==
    \A d \in Positions :
        store[d].duplicate =>
            /\ store'[d].duplicate
            /\ store'[d].duplicate_of = store[d].duplicate_of

\* C2: earliest reference wins. After process completes no reference earlier
\* than the one a duplicate is attributed to scores above SS_MATCH against
\* it, and a duplicate's duplicate_of is never reassigned.
C2_EarliestReferenceWins ==
    /\ []C2_EarliestReference
    /\ [][C2_NeverReassigned]_vars

\* A duplicate whose reference has another reference placed before it.
C2_Witness ==
    /\ pc = "done"
    /\ \E d \in Positions :
          /\ store[d].duplicate
          /\ \E rp \in 1..(PosOf(store[d].duplicate_of) - 1) : store[rp].reference

\* C3: in every state during and after process no question is both a
\* reference and a duplicate.
C3_NeverReferenceAndDuplicate ==
    \A k \in Positions : ~(store[k].reference /\ store[k].duplicate)

\* A reference and a duplicate exist, with a scan under way.
C3_Witness ==
    /\ pc = "inner"
    /\ \E k \in Positions : store[k].duplicate
    /\ \E k \in Positions : store[k].reference /\ k > 1

\* C4: when process completes on two or more questions, every question not
\* flagged foreign is exactly one of reference and duplicate.
C4_ExactlyOneOfReferenceDuplicate ==
    (pc = "done" /\ num_q >= 2) =>
        \A k \in Positions :
            ~store[k].foreign => (store[k].reference # store[k].duplicate)

\* A completed pass with a reference, a duplicate and a foreign question.
C4_Witness ==
    /\ pc = "done"
    /\ num_q >= 2
    /\ \E k \in Positions : ~store[k].foreign /\ store[k].reference
    /\ \E k \in Positions : ~store[k].foreign /\ store[k].duplicate
    /\ \E k \in Positions : store[k].foreign

\* C5: when process completes, a question flagged foreign is neither a
\* reference nor a duplicate, has duplicate_of 0 and is in no duplicates list.
C5_ForeignNeverClustered ==
    pc = "done" =>
        \A k \in Positions :
            store[k].foreign =>
                /\ ~store[k].reference
                /\ ~store[k].duplicate
                /\ store[k].duplicate_of = 0
                /\ \A r \in Positions :
                      \A n \in 1..Len(store[r].duplicates) : store[r].duplicates[n] # k

\* The scenario of C6: the comparison of questions 1 and 2 scored above
\* SS_MATCH and no other comparison did.
C6_OnlyFirstPairMatches ==
    /\ num_q = 3
    /\ \E c \in CallSet : c.q = 1 /\ c.q2 = 2
    /\ \A c \in CallSet : (c.similarity > SS_MATCH) <=> (c.q = 1 /\ c.q2 = 2)

\* The classification C6 states: a question that scored above SS_MATCH
\* against an earlier anchor is a duplicate, not unique, with the anchor's id
\* in duplicate_of; a question that was compared with every earlier reference
\* and never scored above SS_MATCH is unique, no duplicate and a reference;
\* in the scenario 1 and 3 are unique, 2 is a duplicate of 1 and
\* num_duplicates is 1.
C6_Classified ==
        /\ \A c \in CallSet :
              c.similarity > SS_MATCH =>
                  /\ c.q < c.q2
                  /\ store[c.q].reference
                  /\ store[c.q2].duplicate
                  /\ ~store[c.q2].unique
                  /\ store[c.q2].duplicate_of = store[c.q].lid
        /\ \A j \in Positions :
              (\A c \in CallSet : c.q2 = j => c.similarity <= SS_MATCH) =>
                  /\ \A i \in 1..(j - 1) :
                        store[i].reference => \E c \in CallSet : c.q = i /\ c.q2 = j
                  /\ store[j].unique
                  /\ ~store[j].duplicate
                  /\ store[j].reference
        /\ C6_OnlyFirstPairMatches =>
              /\ store[1].unique /\ store[1].reference
              /\ store[2].duplicate /\ ~store[2].unique /\ store[2].duplicate_of = 1
              /\ store[3].unique /\ store[3].reference
              /\ num_duplicates = 1

C7_ProgramState ==
    <<store, num_q, num_foreign, status, num_duplicates, num_negatives, log>>

\* C7 (step): the step that follows a comparison marks the candidate a
\* duplicate of the anchor when the score is above SS_MATCH and changes no
\* flag, list or counter otherwise.
C7_BranchStep ==
    pc = "compared" =>
        IF similarity > SS_MATCH
        THEN /\ store'[CandPos].duplicate
             /\ store'[CandPos].duplicate_of = store[AnchorPos].lid
        ELSE UNCHANGED C7_ProgramState

\* C7: threshold boundary. A candidate is marked duplicate of the current
\* anchor if and only if the score is strictly greater than SS_MATCH; a score
\* equal to SS_MATCH changes no flag, list or counter.
C7_StrictThreshold == [][C7_BranchStep]_vars

\* A comparison scored exactly SS_MATCH and the pass went on.
C7_Witness ==
    /\ pc = "inner"
    /\ Len(calls) > 0
    /\ calls[Len(calls)].similarity = SS_MATCH
    /\ calls[Len(calls)].q2 = CandPos - 1
    /\ ~store[CandPos - 1].duplicate

\* C8: at each call of get_similarity neither the anchor nor the candidate
\* of the call is a duplicate.
C8_NoDuplicateCompared ==
    pc = "compared" =>
        /\ calls[Len(calls)].q = AnchorPos
        /\ calls[Len(calls)].q2 = CandPos
        /\ ~store[AnchorPos].duplicate
        /\ ~store[CandPos].duplicate

\* A comparison is made while an earlier candidate of the scan is a duplicate.
C8_Witness ==
    /\ pc = "compared"
    /\ \E k \in (AnchorPos + 1)..(CandPos - 1) : store[k].duplicate

\* C9: with exactly one question process returns without raising, reports
\* the status ST_NOQ, makes no comparison and leaves the question unique,
\* no duplicate, with duplicate_of 0, and num_duplicates 0.
C9_SingleQuestion ==
    (num_q = 1 /\ pc \notin {"ready"}) =>
        /\ pc = "done"
        /\ status = ST_NOQ
        /\ log = <<"Status">>
        /\ calls = <<>>
        /\ store[1].unique
        /\ ~store[1].duplicate
        /\ store[1].duplicate_of = 0
        /\ num_duplicates = 0

\* process has returned on a store of one question.
C9_Witness ==
    /\ num_q = 1
    /\ pc = "done"
    /\ store[1].unique

\* The negation cue of C10: 'not' among the lower-cased, whitespace-split
\* tokens of the raw text.
C10_Cue(q) ==
    \E k \in 1..Len(Split(Lower(q.original_question))) :
        Split(Lower(q.original_question))[k] = <<"n", "o", "t">>

\* C10 (step): the step that marks a candidate duplicate adds one to
\* num_negatives exactly when the candidate carries the cue, and logs no
\* warning when the cue comes with an answer that differs from the anchor's.
C10_MatchStep ==
    (pc = "compared" /\ store'[CandPos].duplicate) =>
        /\ num_negatives' = num_negatives + (IF C10_Cue(store[CandPos]) THEN 1 ELSE 0)
        /\ (C10_Cue(store[CandPos]) /\ store[CandPos].answer # store[AnchorPos].answer)
               => log' = log

\* C10 (state): num_negatives counts the duplicates that carry the cue and
\* is at most num_duplicates.
C10_NegativeCount ==
    pc = "done" =>
        /\ num_negatives =
              Cardinality({ k \in Positions : store[k].duplicate /\ C10_Cue(store[k]) })
        /\ num_negatives <= num_duplicates

\* C10: a candidate marked duplicate is counted negative if and only if it
\* carries the negation cue, and no warning is logged when its answer
\* differs from the anchor's; after the pass num_negatives is the number of
\* duplicates with the cue and at most num_duplicates.
C10_NegativeClassification ==
    /\ []C10_NegativeCount
    /\ [][C10_MatchStep]_vars

\* A pass ended with a negative duplicate whose answer differs from its
\* reference's, and a duplicate without the cue.
C10_Witness ==
    /\ pc = "done"
    /\ log = <<>>
    /\ num_negatives = 1
    /\ num_duplicates = 2
    /\ \E k \in Positions :
          /\ store[k].duplicate
          /\ store[k].neg_sentiment
          /\ store[k].answer # store[PosOf(store[k].duplicate_of)].answer

\* The step of process that marks the candidate of the last comparison.
C11_MatchStep == pc = "compared" /\ store'[CandPos].duplicate

\* The warning of line 205 is added to the log by the step.
C11_Warned == log' = Append(log, "Possible error in negative sentiment")

\* The clustering decision of a match, and the pass going on.
C11_Decision ==
    /\ store'[CandPos].duplicate
    /\ store'[CandPos].duplicate_of = store[AnchorPos].lid
    /\ store'[AnchorPos].duplicates = Append(store[AnchorPos].duplicates, CandPos)
    /\ num_duplicates' = num_duplicates + 1
    /\ pc' = "inner"

\* C11 as stated: a match whose answers differ without a negation cue, or
\* whose candidate has the cue with equal answers, logs the inconsistency
\* warning, and the clustering decision stands.
C11_WarningInBothCases ==
    [][ C11_MatchStep =>
          /\ ( \/ (store[CandPos].answer # store[AnchorPos].answer
                      /\ ~store[CandPos].neg_sentiment)
               \/ (store[CandPos].neg_sentiment
                      /\ store[CandPos].answer = store[AnchorPos].answer) )
                => C11_Warned
          /\ C11_Decision ]_vars

\* C11, amended: a match logs the inconsistency warning when the candidate
\* has the negation cue and the answers are equal, and logs nothing when the
\* answers differ without a cue; in both cases the candidate is marked
\* duplicate of the anchor, appended to its list and counted, and the pass
\* goes on.
C11_WarningOnlyWithCue ==
    [][ C11_MatchStep =>
          /\ (store[CandPos].neg_sentiment
                 /\ store[CandPos].answer = store[AnchorPos].answer) => C11_Warned
          /\ (~store[CandPos].neg_sentiment
                 /\ store[CandPos].answer # store[AnchorPos].answer) => log' = log
          /\ C11_Decision ]_vars

\* A pass ended with one duplicate of each mismatch case and one warning.
C11_Witness ==
    /\ pc = "done"
    /\ log = <<"Possible error in negative sentiment">>
    /\ \E a, b \in Positions :
          /\ store[a].duplicate /\ store[b].duplicate
          /\ store[a].neg_sentiment
          /\ store[a].answer = store[PosOf(store[a].duplicate_of)].answer
          /\ ~store[b].neg_sentiment
          /\ store[b].answer # store[PosOf(store[b].duplicate_of)].answer

\* The ids in the rows of a sheet.
C12_Ids(sheet) == { sheet[k] : k \in 1..Len(sheet) }

\* C12: the unique, duplicate and foreign record sets written by export
\* after a completed process are pairwise disjoint.
C12_SheetsDisjoint ==
    Exported =>
        /\ C12_Ids(workbook.Unique_Questions) \cap C12_Ids(workbook.Duplicates) = {}
        /\ C12_Ids(workbook.Unique_Questions) \cap C12_Ids(workbook.Foreign) = {}
        /\ C12_Ids(workbook.Duplicates) \cap C12_Ids(workbook.Foreign) = {}

\* C13: the progress sink has no effect on termination: a pass called with
\* progress enabled never ends by raising, and so ends as the pass with
\* progress disabled does.
C13_ProgressTerminatesNormally ==
    progress => pc # "raised"

\* C14: in every state from the construction of the questions to the end of
\* process, unique is the negation of duplicate for every question, so the
\* unique questions and the duplicate questions add up to num_q.
C14_UniqueIsNotDuplicate ==
    /\ \A k \in Positions : store[k].unique = ~store[k].duplicate
    /\ Cardinality({ k \in Positions : store[k].unique })
         + Cardinality({ k \in Positions : store[k].duplicate }) = num_q

\* A scan is under way with a question already marked and one still unique
\* after the anchor.
C14_Witness ==
    /\ pc = "compared"
    /\ \E k \in Positions : store[k].duplicate /\ ~store[k].unique
    /\ store[CandPos].unique

\* The entries of the duplicates lists that hold the question at position k,
\* as <<list owner, index>>.
C15_Entries(k) ==
    { e \in Positions \X Positions :
        e[2] <= Len(store[e[1]].duplicates) /\ store[e[1]].duplicates[e[2]] = k }

\* C15: in every state of process, a question is in the duplicates list of r
\* if and only if it is a duplicate with duplicate_of equal to r's id; it is
\* there exactly once, in no other list, and only references have a
\* non-empty list.
C15_MembershipConsistent ==
    /\ \A r, k \in Positions :
          (\E e \in C15_Entries(k) : e[1] = r)
             <=> (store[k].duplicate /\ store[k].duplicate_of = store[r].lid)
    /\ \A k \in Positions :
          Cardinality(C15_Entries(k)) = IF store[k].duplicate THEN 1 ELSE 0
    /\ \A r \in Positions : store[r].duplicates # <<>> => store[r].reference

\* A pass ended with a reference that has two duplicates in its list.
C15_Witness ==
    /\ pc = "done"
    /\ \E r \in Positions : store[r].reference /\ Len(store[r].duplicates) = 2

\* process has ended, by returning or by raising.
C16_Ended == pc \in {"done", "raised"}

\* The store positions on which an outer iteration has begun in this call.
C16_Visited ==
    IF pc \in {"inner", "compared", "raised"} THEN 1..(idx + 1)
    ELSE IF pc \in {"outer", "done"} THEN 1..idx
    ELSE {}

\* Each ordered pair was asked of get_similarity at most once, anchor before
\* candidate, so at most n * (n - 1) / 2 calls were made.
C16_CallsBounded ==
    /\ \A a, b \in 1..Len(calls) :
          a # b => <<calls[a].q, calls[a].q2>> # <<calls[b].q, calls[b].q2>>
    /\ \A c \in CallSet : 1 <= c.q /\ c.q < c.q2 /\ c.q2 <= num_q
    /\ 2 * Len(calls) <= num_q * (num_q - 1)

C16_Measure ==
    LET K   == 2 * num_q + 4
        R   == num_q - idx
        rem == num_q - CandPos + 1
    IN  CASE pc = "ready"    -> num_q * K + 2
          [] pc = "outer"    -> R * K + 1
          [] pc = "inner"    -> (R - 1) * K + 2 + 2 * rem
          [] pc = "compared" -> (R - 1) * K + 1 + 2 * rem
          [] OTHER           -> 0

\* C16 (state part): the calls are bounded, no position is visited that is not
\* in the store, a returned pass over two or more questions visited all of
\* them, and process can take a step until it has ended.
C16_Progress ==
    /\ C16_CallsBounded
    /\ C16_Visited \subseteq Positions
    /\ (pc = "done" /\ num_q >= 2) => C16_Visited = Positions
    /\ C16_Measure >= 0
    /\ C16_Ended \/ ENABLED Next

\* C16 (step part): a step of process lowers the measure and moves the outer
\* loop by at most one position, never back.
C16_Step ==
    ~C16_Ended =>
        /\ C16_Measure' < C16_Measure
        /\ idx' = idx \/ idx' = idx + 1

C17_StatusDistinguished ==
    pc = "done" => (status = ST_NOQ <=> num_q < 2)

\* The summed length of all duplicates lists.
C18_ListTotal ==
    Cardinality({ e \in Positions \X Positions : e[2] <= Len(store[e[1]].duplicates) })

\* C18: after every return of process, a second or later call included,
\* num_duplicates is the number of questions flagged duplicate, which is the
\* summed length of the duplicates lists.
C18_DuplicateCountAgrees ==
    pc = "done" =>
        /\ num_duplicates = Cardinality({ k \in Positions : store[k].duplicate })
        /\ num_duplicates = C18_ListTotal

\* C19: after every return of process, for every store size and for repeated
\* calls, num_foreign is the number of questions flagged foreign.
C19_ForeignCountAgrees ==
    pc = "done" =>
        num_foreign = Cardinality({ k \in Positions : store[k].foreign })

====
